---- MODULE Spec2Model ----
(***************************************************************************)
(* A model of the rsweeper board engine (src/src/gameboard.rs) driven by   *)
(* the mouse handler of src/src/gameboard_controller.rs.                   *)
(*                                                                         *)
(* The fields of struct Gameboard are the variables size, bombs, flagged,  *)
(* state and cells.  Every method of Gameboard is an operator from a board *)
(* record (the five fields) to a board record, written statement by        *)
(* statement after the Rust code; the two actions are the two mouse        *)
(* buttons of GameboardController::event.                                  *)
(***************************************************************************)
EXTENDS Integers, Naturals, Sequences, FiniteSets, TLC

VARIABLES
    size,      \* Gameboard::size, <<cols, rows>>
    bombs,     \* Gameboard::bombs
    flagged,   \* Gameboard::flagged
    state,     \* Gameboard::state
    cells,     \* Gameboard::cells, a function from <<col, row>> to Cell
    first,     \* history: the cell of the reveal that left Initial, or <<>>
    last,      \* history: the last intent handled: its button (op), the
               \* state it found (from), whether it found its target cell
               \* Revealed (revealed), whether it changed the board (changed)
    stack      \* the active calls of reveal_with_no_neighbors, outermost
               \* first: the arguments (col, row) of each and the position
               \* i of its double loop; empty outside a cascade

vars == <<size, bombs, flagged, state, cells, first, last, stack>>

-----------------------------------------------------------------------------
(* Bounds of the model.                                                    *)

MaxCols == 3
MaxRows == 3
MaxCells == 9
MaxBombs == 2

\* The boards of the specification of the first reveal alone (SpecOpen):
\* wide enough, and with bombs enough (OpenBombs - 1 or OpenBombs), for a
\* cell with eight bombs around it.
OpenCols == 5
OpenRows == 3
OpenCells == 15
OpenBombs == 9

-----------------------------------------------------------------------------
(* Types.                                                                  *)

\* enum PlayerCell
PlayerCell == {"NotDetermined", "Flagged", "Question", "Revealed"}

\* enum GameState
GameState == {"Initial", "Alive", "Won", "Lost"}

\* enum CellContent: Nothing(u8) | Bomb
Bomb == [kind |-> "Bomb"]
Nothing(n) == [kind |-> "Nothing", n |-> n]

\* Cell::default(): PlayerCell::default() and CellContent::default()
DefaultCell == [player |-> "NotDetermined", content |-> Nothing(0)]

\* The coordinates <<col, row>> of a board of cols x rows cells.
Coords(cols, rows) == (0 .. cols - 1) \X (0 .. rows - 1)

\* usize::saturating_sub and std::cmp::min
saturating_sub(a, b) == IF a >= b THEN a - b ELSE 0
min(a, b) == IF a <= b THEN a ELSE b

\* The struct as one value.
G == [size |-> size, bombs |-> bombs, flagged |-> flagged,
      state |-> state, cells |-> cells]

-----------------------------------------------------------------------------
(* Gameboard.                                                              *)

\* Mutant of new_panics: the assertion reads rows * cols >= bombs.
new_panics_allows_equal(cols, rows, nbombs) == ~(rows * cols >= nbombs)

\* Whether Gameboard::new fails: its assert!(rows * cols > bombs, ..) at
\* line 110 (no usize overflow within the bounds of the model).
new_panics(cols, rows, nbombs) == ~(rows * cols > nbombs)

\* Gameboard::new, defined where its assert!(rows * cols > bombs) passes.
new(cols, rows, nbombs) ==
    [size |-> <<cols, rows>>,
     bombs |-> nbombs,
     flagged |-> 0,
     state |-> "Initial",
     cells |-> [p \in Coords(cols, rows) |-> DefaultCell]]

\* Gameboard::get_cell
get_cell(g, col, row) == g.cells[<<col, row>>]

\* Whether the index expression self.cells[row][col] of get_cell and
\* get_mut_cell (lines 137, 142) panics: cells holds size[1] rows of size[0]
\* cells (size is <<cols, rows>>, indexed from 1 here).
index_panics(g, col, row) == ~(row < g.size[2]) \/ ~(col < g.size[1])

\* The cells of the two nested inclusive ranges used by count_neighbor_bombs
\* and reveal_with_no_neighbors, in the order the loops visit them
\* (rows outside, columns inside).
RECURSIVE RangeSeq(_, _)
RangeSeq(lo, hi) == IF lo > hi THEN <<>> ELSE <<lo>> \o RangeSeq(lo + 1, hi)

RECURSIVE Flatten(_)
Flatten(ss) == IF ss = <<>> THEN <<>> ELSE Head(ss) \o Flatten(Tail(ss))

Window(g, col, row) ==
    LET rs == RangeSeq(saturating_sub(row, 1), min(row + 1, g.size[2] - 1))
        cs == RangeSeq(saturating_sub(col, 1), min(col + 1, g.size[1] - 1))
    IN  Flatten([i \in 1 .. Len(rs) |-> [j \in 1 .. Len(cs) |-> <<cs[j], rs[i]>>]])

\* Gameboard::count_neighbor_bombs; CountLoop is its double loop from the
\* i-th cell of the window on, with res the bombs counted so far.
RECURSIVE CountLoop(_, _, _, _)
CountLoop(g, w, i, res) ==
    IF i > Len(w) THEN res
    ELSE CountLoop(g, w, i + 1,
                   IF g.cells[w[i]].content = Bomb THEN res + 1 ELSE res)

\* Mutant of count_neighbor_bombs: both ranges exclusive (..) instead of
\* inclusive (..=), so the last row and the last column of the window are
\* not counted.
count_neighbor_bombs_exclusive(g, col, raw) ==
    LET rs == RangeSeq(saturating_sub(raw, 1), min(raw + 1, g.size[2] - 1) - 1)
        cs == RangeSeq(saturating_sub(col, 1), min(col + 1, g.size[1] - 1) - 1)
    IN  CountLoop(g, Flatten([i \in 1 .. Len(rs) |->
                                [j \in 1 .. Len(cs) |-> <<cs[j], rs[i]>>]]), 1, 0)

\* Mutant of count_neighbor_bombs: the ranges reach two cells away.
count_neighbor_bombs_two_away(g, col, raw) ==
    LET rs == RangeSeq(saturating_sub(raw, 2), min(raw + 2, g.size[2] - 1))
        cs == RangeSeq(saturating_sub(col, 2), min(col + 2, g.size[1] - 1))
    IN  CountLoop(g, Flatten([i \in 1 .. Len(rs) |->
                                [j \in 1 .. Len(cs) |-> <<cs[j], rs[i]>>]]), 1, 0)

count_neighbor_bombs(g, col, raw) == CountLoop(g, Window(g, col, raw), 1, 0)

\* Mutant of is_neighbour: the upper bounds lack their + 1, so the cells to
\* the right of and below cell 1 do not count as its neighbours.
is_neighbour_no_upper(col1, row1, col2, row2) ==
    /\ saturating_sub(col1, 1) <= col2
    /\ col2 <= col1
    /\ saturating_sub(row1, 1) <= row2
    /\ row2 <= row1

\* Gameboard::is_neighbour
is_neighbour(col1, row1, col2, row2) ==
    /\ saturating_sub(col1, 1) <= col2
    /\ col2 <= col1 + 1
    /\ saturating_sub(row1, 1) <= row2
    /\ row2 <= row1 + 1

\* Mutant of Placements: placed is incremented for every eligible draw, also
\* one that hits a cell that is a bomb already, so the loop may end with
\* fewer bombs than self.bombs.
Placements_counting_redraws(g, rcol, rrow) ==
    {S \in SUBSET {p \in DOMAIN g.cells : ~is_neighbour(rcol, rrow, p[1], p[2])} :
        /\ Cardinality(S) <= g.bombs
        /\ g.bombs > 0 => S # {}}

\* The outcomes of the placement loop of Gameboard::init (lines 158-173): the
\* loop draws cells uniformly, turns a drawn cell into a bomb when it is not a
\* neighbour of the revealed cell and not yet a bomb, and ends when
\* self.bombs cells were turned.  Its possible results are the sets of
\* self.bombs eligible cells; when fewer cells are eligible the loop never
\* ends and there is no outcome.
Placements(g, rcol, rrow) ==
    {S \in SUBSET {p \in DOMAIN g.cells : ~is_neighbour(rcol, rrow, p[1], p[2])} :
        Cardinality(S) = g.bombs}

\* One iteration of the placement loop of Gameboard::init (lines 160-172)
\* that draws the cell (col, row).
place_draw(g, rcol, rrow, col, row) ==
    IF ~is_neighbour(rcol, rrow, col, row)
       /\ get_cell(g, col, row).content.kind = "Nothing"
    THEN [g EXCEPT !.cells[<<col, row>>].content = Bomb]
    ELSE g

\* The local variable placed of Gameboard::init: it starts at 0 on a board
\* without bombs and is incremented with every cell turned into a bomb.
placed_of(g) == Cardinality({p \in DOMAIN g.cells : g.cells[p].content.kind = "Bomb"})

\* The second half of Gameboard::init (lines 176-192): the neighbour counts
\* and the state Alive.
compute_neighbors(g) ==
    [g EXCEPT !.cells =
         [p \in DOMAIN g.cells |->
             IF g.cells[p].content.kind = "Nothing"
             THEN [g.cells[p] EXCEPT !.content =
                     Nothing(count_neighbor_bombs(g, p[1], p[2]))]
             ELSE g.cells[p]],
       !.state = "Alive"]

\* Gameboard::init, with S the cells the placement loop turned into bombs.
init(g, rcol, rrow, S) ==
    LET placed == [g EXCEPT !.cells =
                      [p \in DOMAIN g.cells |->
                          IF p \in S /\ g.cells[p].content.kind = "Nothing"
                          THEN [g.cells[p] EXCEPT !.content = Bomb]
                          ELSE g.cells[p]]]
    IN  compute_neighbors(placed)

\* The grid scan of Gameboard::update_state (lines 215-233): the number of
\* Flagged cells and whether every cell is Revealed or Flagged with never
\* more than self.bombs flags counted.
ScanFlagged(g) == Cardinality({p \in DOMAIN g.cells : g.cells[p].player = "Flagged"})

\* Mutant of ScanOver: the arm `_ => over = false` is missing, so cells that
\* are NotDetermined or Question do not prevent the win.
ScanOver_flags_only(g) == ~(ScanFlagged(g) > g.bombs)

ScanOver(g) ==
    /\ \A p \in DOMAIN g.cells : g.cells[p].player \in {"Flagged", "Revealed"}
    /\ ~(ScanFlagged(g) > g.bombs)

\* Mutant of update_state: the scan decides the win, but its count is not
\* stored (`self.flagged = flagged` is missing).
update_state_keeps_flagged(g, col, row) ==
    IF g.state = "Alive"
    THEN LET cell == get_cell(g, col, row) IN
         IF cell.player = "Revealed" /\ cell.content = Bomb
         THEN [g EXCEPT !.state = "Lost"]
         ELSE IF ScanOver(g) /\ ScanFlagged(g) = g.bombs
              THEN [g EXCEPT !.state = "Won"]
              ELSE g
    ELSE g

\* Gameboard::update_state
update_state(g, col, row) ==
    IF g.state = "Alive"
    THEN LET cell == get_cell(g, col, row) IN
         IF cell.player = "Revealed" /\ cell.content = Bomb
         THEN [g EXCEPT !.state = "Lost"]
         ELSE LET g1 == [g EXCEPT !.flagged = ScanFlagged(g)] IN
              IF ScanOver(g) /\ g1.flagged = g1.bombs
              THEN [g1 EXCEPT !.state = "Won"]
              ELSE g1
    ELSE g

\* Gameboard::reveal_with_no_neighbors; RevealLoop is its double loop from
\* the i-th cell of the window on.
RECURSIVE reveal_with_no_neighbors(_, _, _)
RECURSIVE RevealLoop(_, _, _)
\* Mutant of RevealLoop: a Flagged cell is skipped as a Revealed one is.
RevealLoop_skips_flags(g, w, i) ==
    IF i > Len(w) THEN g
    ELSE IF g.cells[w[i]].player \in {"Revealed", "Flagged"}
         THEN RevealLoop(g, w, i + 1)
         ELSE LET g1 == [g EXCEPT !.cells[w[i]].player = "Revealed"]
                  g2 == IF g1.cells[w[i]].content = Nothing(0)
                        THEN reveal_with_no_neighbors(g1, w[i][1], w[i][2])
                        ELSE g1
              IN  RevealLoop(g2, w, i + 1)

\* Mutant of RevealLoop: every cell that is not a bomb is entered, whatever
\* its count.
RevealLoop_enters_counts(g, w, i) ==
    IF i > Len(w) THEN g
    ELSE IF g.cells[w[i]].player = "Revealed"
         THEN RevealLoop(g, w, i + 1)
         ELSE LET g1 == [g EXCEPT !.cells[w[i]].player = "Revealed"]
                  g2 == IF g1.cells[w[i]].content.kind = "Nothing"
                        THEN reveal_with_no_neighbors(g1, w[i][1], w[i][2])
                        ELSE g1
              IN  RevealLoop(g2, w, i + 1)

RevealLoop(g, w, i) ==
    IF i > Len(w) THEN g
    ELSE IF g.cells[w[i]].player = "Revealed"
         THEN RevealLoop(g, w, i + 1)
         ELSE LET g1 == [g EXCEPT !.cells[w[i]].player = "Revealed"]
                  g2 == IF g1.cells[w[i]].content = Nothing(0)
                        THEN reveal_with_no_neighbors(g1, w[i][1], w[i][2])
                        ELSE g1
              IN  RevealLoop(g2, w, i + 1)

\* Mutant of reveal_with_no_neighbors: the window is revealed, but the
\* cells of it that count no bomb are not entered.
reveal_with_no_neighbors_one_level(g, col, row) ==
    [g EXCEPT !.cells =
        [p \in DOMAIN g.cells |->
            IF \E i \in 1 .. Len(Window(g, col, row)) : Window(g, col, row)[i] = p
            THEN [g.cells[p] EXCEPT !.player = "Revealed"]
            ELSE g.cells[p]]]

reveal_with_no_neighbors(g, col, row) == RevealLoop(g, Window(g, col, row), 1)

\* A call of reveal_with_no_neighbors(col, row) about to start its loops.
Frame(col, row) == [col |-> col, row |-> row, i |-> 1]

\* The cell the innermost call of the stack st is at, and whether its loops
\* are over.
frame_cell(g, st) ==
    Window(g, st[Len(st)].col, st[Len(st)].row)[st[Len(st)].i]
frame_done(g, st) ==
    st[Len(st)].i > Len(Window(g, st[Len(st)].col, st[Len(st)].row))

\* The stack st with its innermost call moved to the next cell of its loops.
frame_next(st) == [st EXCEPT ![Len(st)].i = @ + 1]

\* Mutant of cascade_iter: without the `continue` on a Revealed cell.
cascade_iter_no_continue(g, st) ==
    LET p  == frame_cell(g, st)
        g1 == [g EXCEPT !.cells[p].player = "Revealed"]
    IN  IF g1.cells[p].content = Nothing(0)
        THEN [g |-> g1, stack |-> Append(frame_next(st), Frame(p[1], p[2]))]
        ELSE [g |-> g1, stack |-> frame_next(st)]

\* One iteration of the inner loop of reveal_with_no_neighbors (lines
\* 248-257) in the innermost call of st: the board and the stack after it.
\* The recursive call of line 255 pushes a call; the caller resumes at its
\* next cell when that call returns.
cascade_iter(g, st) ==
    LET p  == frame_cell(g, st)
        g1 == [g EXCEPT !.cells[p].player = "Revealed"]
    IN  IF g.cells[p].player = "Revealed"
        THEN [g |-> g, stack |-> frame_next(st)]
        ELSE IF g1.cells[p].content = Nothing(0)
        THEN [g |-> g1, stack |-> Append(frame_next(st), Frame(p[1], p[2]))]
        ELSE [g |-> g1, stack |-> frame_next(st)]

\* Mutant of set_initial: the arm `_ => {}` stores the annotation asked for.
set_initial_annotates(g, col, row, val, S) ==
    IF val = "Revealed"
    THEN LET g1 == [g EXCEPT !.cells[<<col, row>>].player = "Revealed"]
             g2 == init(g1, col, row, S)
         IN  IF get_cell(g2, col, row).content = Nothing(0)
             THEN reveal_with_no_neighbors(g2, col, row)
             ELSE g2
    ELSE [g EXCEPT !.cells[<<col, row>>].player = val]

\* Mutant of set_initial: the first reveal ends with update_state, as a
\* reveal in state Alive does.
set_initial_updates_state(g, col, row, val, S) ==
    IF val = "Revealed"
    THEN LET g1 == [g EXCEPT !.cells[<<col, row>>].player = "Revealed"]
             g2 == init(g1, col, row, S)
             g3 == IF get_cell(g2, col, row).content = Nothing(0)
                   THEN reveal_with_no_neighbors(g2, col, row)
                   ELSE g2
         IN  update_state(g3, col, row)
    ELSE g

\* Mutant of set_initial: without the optimisation of lines 275-278.
set_initial_no_cascade(g, col, row, val, S) ==
    IF val = "Revealed"
    THEN init([g EXCEPT !.cells[<<col, row>>].player = "Revealed"], col, row, S)
    ELSE g

\* Gameboard::set in state Initial (lines 264-283), with S the outcome of the
\* placement loop.
set_initial(g, col, row, val, S) ==
    IF val = "Revealed"
    THEN LET g1 == [g EXCEPT !.cells[<<col, row>>].player = "Revealed"]
             g2 == init(g1, col, row, S)
         IN  IF get_cell(g2, col, row).content = Nothing(0)
             THEN reveal_with_no_neighbors(g2, col, row)
             ELSE g2
    ELSE g

\* Mutant of set_alive: a Flagged cell is locked against a reveal, as a
\* Revealed one is against everything.
set_alive_flags_lock(g, col, row, val) ==
    IF val = "Flagged" /\ g.flagged >= g.bombs
    THEN g
    ELSE IF get_cell(g, col, row).player = "Revealed"
            \/ (val = "Revealed" /\ get_cell(g, col, row).player = "Flagged")
    THEN g
    ELSE LET g1 == [g EXCEPT !.cells[<<col, row>>].player = val]
             g2 == IF val = "Revealed"
                      /\ get_cell(g1, col, row).content = Nothing(0)
                   THEN reveal_with_no_neighbors(g1, col, row)
                   ELSE g1
         IN  update_state(g2, col, row)

\* Mutant of set_alive: the cap compares with > instead of >=.
set_alive_cap_off_by_one(g, col, row, val) ==
    IF val = "Flagged" /\ g.flagged > g.bombs
    THEN g
    ELSE IF get_cell(g, col, row).player = "Revealed"
    THEN g
    ELSE LET g1 == [g EXCEPT !.cells[<<col, row>>].player = val]
             g2 == IF val = "Revealed"
                      /\ get_cell(g1, col, row).content = Nothing(0)
                   THEN reveal_with_no_neighbors(g1, col, row)
                   ELSE g1
         IN  update_state(g2, col, row)

\* Mutant of set_alive: no cap on the flags at all.
set_alive_no_cap(g, col, row, val) ==
    IF get_cell(g, col, row).player = "Revealed"
    THEN g
    ELSE LET g1 == [g EXCEPT !.cells[<<col, row>>].player = val]
             g2 == IF val = "Revealed"
                      /\ get_cell(g1, col, row).content = Nothing(0)
                   THEN reveal_with_no_neighbors(g1, col, row)
                   ELSE g1
         IN  update_state(g2, col, row)

\* Mutant of set_alive: the early return on a Revealed cell is missing.
set_alive_overwrites_revealed(g, col, row, val) ==
    IF val = "Flagged" /\ g.flagged >= g.bombs
    THEN g
    ELSE LET g1 == [g EXCEPT !.cells[<<col, row>>].player = val]
             g2 == IF val = "Revealed"
                      /\ get_cell(g1, col, row).content = Nothing(0)
                   THEN reveal_with_no_neighbors(g1, col, row)
                   ELSE g1
         IN  update_state(g2, col, row)

\* Mutant of set_alive: a reveal of a Revealed cell opens the cells around
\* it instead of returning.
set_alive_chords(g, col, row, val) ==
    IF val = "Flagged" /\ g.flagged >= g.bombs
    THEN g
    ELSE IF get_cell(g, col, row).player = "Revealed"
    THEN IF val = "Revealed"
         THEN update_state(reveal_with_no_neighbors(g, col, row), col, row)
         ELSE g
    ELSE LET g1 == [g EXCEPT !.cells[<<col, row>>].player = val]
             g2 == IF val = "Revealed"
                      /\ get_cell(g1, col, row).content = Nothing(0)
                   THEN reveal_with_no_neighbors(g1, col, row)
                   ELSE g1
         IN  update_state(g2, col, row)

\* Mutant of set_alive: without the optimisation of lines 302-308.
set_alive_no_cascade(g, col, row, val) ==
    IF val = "Flagged" /\ g.flagged >= g.bombs
    THEN g
    ELSE IF get_cell(g, col, row).player = "Revealed"
    THEN g
    ELSE update_state([g EXCEPT !.cells[<<col, row>>].player = val], col, row)

\* Gameboard::set in state Alive (lines 286-314).
set_alive(g, col, row, val) ==
    IF val = "Flagged" /\ g.flagged >= g.bombs
    THEN g
    ELSE IF get_cell(g, col, row).player = "Revealed"
    THEN g
    ELSE LET g1 == [g EXCEPT !.cells[<<col, row>>].player = val]
             g2 == IF val = "Revealed"
                      /\ get_cell(g1, col, row).content = Nothing(0)
                   THEN reveal_with_no_neighbors(g1, col, row)
                   ELSE g1
         IN  update_state(g2, col, row)

\* Mutant of set: once the game is Won or Lost a reveal starts a new game on
\* a board of the same size and bombs.
set_restarts(g, col, row, val, S) ==
    IF g.state = "Initial"
    THEN set_initial(g, col, row, val, S)
    ELSE IF g.state = "Alive"
    THEN set_alive(g, col, row, val)
    ELSE set_initial(new(g.size[1], g.size[2], g.bombs), col, row, val, S)

\* Mutant of set: the second branch is taken in every state but Initial, not
\* only in Alive.
set_ungated(g, col, row, val, S) ==
    IF g.state = "Initial"
    THEN set_initial(g, col, row, val, S)
    ELSE set_alive(g, col, row, val)

\* Gameboard::set, with S the outcome of the placement loop (used only by the
\* reveal that leaves Initial).
set(g, col, row, val, S) ==
    IF g.state = "Initial"
    THEN set_initial(g, col, row, val, S)
    ELSE IF g.state = "Alive"
    THEN set_alive(g, col, row, val)
    ELSE g

\* Whether Gameboard::set panics on an out-of-bounds index: it does where it
\* reaches get_mut_cell (line 271 in state Initial, line 295 in state Alive)
\* with (col, row) outside the board.
set_panics(g, col, row, val) ==
    IF g.state = "Initial"
    THEN val = "Revealed" /\ index_panics(g, col, row)
    ELSE IF g.state = "Alive"
    THEN ~(val = "Flagged" /\ g.flagged >= g.bombs) /\ index_panics(g, col, row)
    ELSE FALSE

\* The Color constants of lines 90-105, by name (sixteen distinct values).
Color ==
    {"BOMB_BACKGROUND", "WRONG_BACKGROUND", "ND_BACKGROUND", "REV_BACKGROUND",
     "QUESTION_BACKGROUND", "FLAGGED_BACKGROUND", "BLACK",
     "ONE_COLOR", "TWO_COLOR", "THREE_COLOR", "FOUR_COLOR", "FIVE_COLOR",
     "SIX_COLOR", "SEVEN_COLOR", "EIGTH_COLOR"}

\* Option<(char, Color)>: None is the empty tuple, Some((c, k)) is <<c, k>>.
None == <<>>

\* The font colours of the digits '1' .. '8' in get_neighbours.
DigitColor ==
    <<"ONE_COLOR", "TWO_COLOR", "THREE_COLOR", "FOUR_COLOR", "FIVE_COLOR",
      "SIX_COLOR", "SEVEN_COLOR", "EIGTH_COLOR">>

\* The characters '1' .. '8'.
DigitChar == <<"1", "2", "3", "4", "5", "6", "7", "8">>

\* Gameboard::get_neighbours: the glyph of a revealed cell. A count above 8
\* panics ("more than 8 bombs???").
get_neighbours(g, col, row) ==
    LET cell == get_cell(g, col, row) IN
    IF cell.content.kind = "Nothing"
    THEN IF cell.content.n = 0 THEN <<None, "REV_BACKGROUND">>
         ELSE IF cell.content.n \in 1 .. 8
         THEN <<(<<DigitChar[cell.content.n], DigitColor[cell.content.n]>>),
                "REV_BACKGROUND">>
         ELSE <<"panic">>
    ELSE <<None, "REV_BACKGROUND">>

\* Gameboard::char_and_colors: (Option<(char, font colour)>, background).
char_and_colors(g, col, row) ==
    LET cell == get_cell(g, col, row) IN
    IF g.state = "Lost"
    THEN IF cell.content.kind = "Nothing"
         THEN IF cell.player = "Revealed" THEN get_neighbours(g, col, row)
              ELSE IF cell.player = "Flagged"
              THEN <<(<<"X", "BLACK">>), "WRONG_BACKGROUND">>
              ELSE <<None, "ND_BACKGROUND">>
         ELSE IF cell.player = "Revealed"
              THEN <<(<<"B", "BLACK">>), "WRONG_BACKGROUND">>
              ELSE IF cell.player = "Flagged"
              THEN <<(<<"F", "BLACK">>), "FLAGGED_BACKGROUND">>
              ELSE <<(<<"B", "BLACK">>), "BOMB_BACKGROUND">>
    ELSE IF cell.player = "NotDetermined" THEN <<None, "ND_BACKGROUND">>
         ELSE IF cell.player = "Flagged"
         THEN <<(<<"F", "BLACK">>), "FLAGGED_BACKGROUND">>
         ELSE IF cell.player = "Question"
         THEN <<(<<"?", "BLACK">>), "QUESTION_BACKGROUND">>
         ELSE get_neighbours(g, col, row)

-----------------------------------------------------------------------------
(* GameboardController.                                                    *)

\* Mutant of CycleVal: the cycle runs the other way round.
CycleVal_reversed(player) ==
    CASE player = "NotDetermined" -> "Question"
      [] player = "Question"      -> "Flagged"
      [] player = "Flagged"       -> "NotDetermined"
      [] OTHER                    -> "return"

\* The annotation the right button asks for (event, lines 64-69); "return"
\* stands for the early return on a Revealed cell.
CycleVal(player) ==
    CASE player = "NotDetermined" -> "Flagged"
      [] player = "Flagged"       -> "Question"
      [] player = "Question"      -> "NotDetermined"
      [] OTHER                    -> "return"

\* The right-button branch of GameboardController::event on cell (col, row).
annotate_cycle(g, col, row) ==
    LET val == CycleVal(get_cell(g, col, row).player) IN
    IF val = "return" THEN g ELSE set(g, col, row, val, {})

\* The bomb counter text of GameboardView::draw (lines 105-109) and of
\* set_widgets (main.rs, lines 59-63).  bombs - flagged is a subtraction of
\* usize values: it underflows (a panic, or a wrapped value in a build
\* without overflow checks) when flagged exceeds bombs.
draw_counter(g) ==
    IF g.state = "Lost" THEN [text |-> "BOOM!", underflow |-> FALSE]
    ELSE IF g.state = "Won" THEN [text |-> "You won!", underflow |-> FALSE]
    ELSE [text |-> "Left", underflow |-> g.flagged > g.bombs]

\* The outcomes of the random source during a left click on (col, row).
RandomOutcomes(g, col, row) ==
    IF g.state = "Initial" THEN Placements(g, col, row) ELSE {{}}

-----------------------------------------------------------------------------
(* The state machine.                                                      *)

Store(g) ==
    /\ size' = g.size
    /\ bombs' = g.bombs
    /\ flagged' = g.flagged
    /\ state' = g.state
    /\ cells' = g.cells

\* Construction: main builds one board with Gameboard::new; here every board
\* of the bounds whose construction passes the assertion of new
\* (rows * cols > bombs).
Init ==
    /\ \E cols \in 1 .. MaxCols, rows \in 1 .. MaxRows :
          /\ cols * rows <= MaxCells
          /\ \E nbombs \in 0 .. MaxBombs :
                /\ ~new_panics(cols, rows, nbombs)
                /\ size = new(cols, rows, nbombs).size
                /\ bombs = new(cols, rows, nbombs).bombs
                /\ flagged = new(cols, rows, nbombs).flagged
                /\ state = new(cols, rows, nbombs).state
                /\ cells = new(cols, rows, nbombs).cells
    /\ first = <<>>
    /\ last = [op |-> "none", from |-> "Initial", revealed |-> FALSE,
               changed |-> FALSE]
    /\ stack = <<>>

\* Left button on cell (col, row): gameboard.set(ind, PlayerCell::Revealed).
Reveal(col, row) ==
    /\ <<col, row>> \in DOMAIN cells
    /\ \E S \in RandomOutcomes(G, col, row) :
          LET g == set(G, col, row, "Revealed", S) IN
          /\ Store(g)
          /\ last' = [op |-> "reveal", from |-> state,
                      revealed |-> get_cell(G, col, row).player = "Revealed",
                      changed |-> g # G]
    /\ first' = IF state = "Initial" THEN <<col, row>> ELSE first
    /\ stack' = stack

\* Right button on cell (col, row).
CycleAnnotate(col, row) ==
    /\ <<col, row>> \in DOMAIN cells
    /\ LET g == annotate_cycle(G, col, row) IN
          /\ Store(g)
          /\ last' = [op |-> "annotate", from |-> state,
                      revealed |-> get_cell(G, col, row).player = "Revealed",
                      changed |-> g # G]
    /\ first' = first
    /\ stack' = stack

Next ==
    \E col \in 0 .. MaxCols - 1, row \in 0 .. MaxRows - 1 :
        \/ Reveal(col, row)
        \/ CycleAnnotate(col, row)

Spec == Init /\ [][Next]_vars

-----------------------------------------------------------------------------
(* The first reveal, with the placement loop of Gameboard::init taken one  *)
(* iteration at a time.  While the loop runs the state is Initial, the     *)
(* revealed cell (first) is the only Revealed one, and placed is the       *)
(* number of bomb cells.                                                   *)

\* Gameboard::set, lines 264-273: the reveal is recorded and init entered.
PlaceBegin(col, row) ==
    /\ <<col, row>> \in DOMAIN cells
    /\ state = "Initial" /\ first = <<>>
    /\ cells' = [cells EXCEPT ![<<col, row>>].player = "Revealed"]
    /\ first' = <<col, row>>
    /\ UNCHANGED <<size, bombs, flagged, state, last, stack>>

\* One iteration of `while placed < self.bombs` that draws (col, row).
PlaceDraw(col, row) ==
    /\ <<col, row>> \in DOMAIN cells
    /\ state = "Initial" /\ first # <<>>
    /\ placed_of(G) < bombs
    /\ Store(place_draw(G, first[1], first[2], col, row))
    /\ UNCHANGED <<first, last, stack>>

\* The loop has ended: the rest of init (lines 176-192) and of the Initial
\* branch of set (lines 274-282).
PlaceEnd ==
    /\ state = "Initial" /\ first # <<>>
    /\ ~(placed_of(G) < bombs)
    /\ LET g2 == compute_neighbors(G) IN
          Store(IF get_cell(g2, first[1], first[2]).content = Nothing(0)
                THEN reveal_with_no_neighbors(g2, first[1], first[2])
                ELSE g2)
    /\ last' = [op |-> "reveal", from |-> "Initial", revealed |-> FALSE,
                changed |-> TRUE]
    /\ UNCHANGED <<first, stack>>

NextPlace ==
    \/ \E col \in 0 .. MaxCols - 1, row \in 0 .. MaxRows - 1 :
          \/ PlaceBegin(col, row)
          \/ PlaceDraw(col, row)
    \/ PlaceEnd

SpecPlace == Init /\ [][NextPlace]_vars

-----------------------------------------------------------------------------
(* The reveals, with reveal_with_no_neighbors taken one loop iteration at  *)
(* a time and its recursion kept on stack.                                 *)

\* Gameboard::set(col, row, Revealed) up to its call of
\* reveal_with_no_neighbors (lines 264-278 in state Initial, 286-305 in
\* state Alive); where that call is not made, the whole of set.
CascadeBegin(col, row) ==
    /\ <<col, row>> \in DOMAIN cells
    /\ stack = <<>>
    /\ \/ /\ state = "Initial"
          /\ \E S \in Placements(G, col, row) :
                LET g1 == [G EXCEPT !.cells[<<col, row>>].player = "Revealed"]
                    g2 == init(g1, col, row, S)
                IN  /\ Store(g2)
                    /\ stack' = IF get_cell(g2, col, row).content = Nothing(0)
                                THEN <<Frame(col, row)>> ELSE <<>>
       \/ /\ state = "Alive"
          /\ get_cell(G, col, row).player # "Revealed"
          /\ LET g1 == [G EXCEPT !.cells[<<col, row>>].player = "Revealed"]
             IN  IF get_cell(g1, col, row).content = Nothing(0)
                 THEN Store(g1) /\ stack' = <<Frame(col, row)>>
                 ELSE Store(update_state(g1, col, row)) /\ stack' = <<>>
    /\ last' = [op |-> "reveal", from |-> state, revealed |-> FALSE,
                changed |-> TRUE]
    /\ first' = IF state = "Initial" THEN <<col, row>> ELSE first

\* One iteration of the loops of the innermost call.
CascadeIter ==
    /\ stack # <<>>
    /\ ~frame_done(G, stack)
    /\ Store(cascade_iter(G, stack).g)
    /\ stack' = cascade_iter(G, stack).stack
    /\ UNCHANGED <<first, last>>

\* The innermost call returns; when it is the call made by set in state
\* Alive, set goes on to update_state(col, row) (line 313).
CascadeReturn ==
    /\ stack # <<>>
    /\ frame_done(G, stack)
    /\ stack' = SubSeq(stack, 1, Len(stack) - 1)
    /\ IF Len(stack) = 1 /\ last.from = "Alive"
       THEN Store(update_state(G, stack[1].col, stack[1].row))
       ELSE UNCHANGED <<size, bombs, flagged, state, cells>>
    /\ UNCHANGED <<first, last>>

NextCascade ==
    \/ \E col \in 0 .. MaxCols - 1, row \in 0 .. MaxRows - 1 :
          CascadeBegin(col, row)
    \/ CascadeIter
    \/ CascadeReturn

SpecCascade == Init /\ [][NextCascade]_vars

-----------------------------------------------------------------------------
(* The first reveal alone, on wider boards with many bombs.  It is the     *)
(* only intent that writes cell contents.                                  *)

InitOpen ==
    /\ \E cols \in 1 .. OpenCols, rows \in 1 .. OpenRows :
          /\ cols * rows <= OpenCells
          /\ \E nbombs \in OpenBombs - 1 .. OpenBombs :
                /\ ~new_panics(cols, rows, nbombs)
                /\ size = new(cols, rows, nbombs).size
                /\ bombs = new(cols, rows, nbombs).bombs
                /\ flagged = new(cols, rows, nbombs).flagged
                /\ state = new(cols, rows, nbombs).state
                /\ cells = new(cols, rows, nbombs).cells
    /\ first = <<>>
    /\ last = [op |-> "none", from |-> "Initial", revealed |-> FALSE,
               changed |-> FALSE]
    /\ stack = <<>>

\* Left button on cell (col, row) of a board in state Initial.
Open(col, row) ==
    /\ state = "Initial"
    /\ Reveal(col, row)

NextOpen ==
    \E col \in 0 .. OpenCols - 1, row \in 0 .. OpenRows - 1 : Open(col, row)

SpecOpen == InitOpen /\ [][NextOpen]_vars

-----------------------------------------------------------------------------
(* Vocabulary of the properties.                                           *)

\* The in-bounds cells at distance at most one from p, p included.
Around(p) ==
    {q \in DOMAIN cells : /\ q[1] - p[1] \in {-1, 0, 1}
                          /\ q[2] - p[2] \in {-1, 0, 1}}

BombCells == {p \in DOMAIN cells : cells[p].content.kind = "Bomb"}
FlaggedCells == {p \in DOMAIN cells : cells[p].player = "Flagged"}
RevealedCells == {p \in DOMAIN cells : cells[p].player = "Revealed"}

-----------------------------------------------------------------------------
(* C1: once the first reveal has happened at a cell, and in every later    *)
(* state, neither that cell nor any in-bounds cell of its 8-neighbourhood  *)
(* holds a bomb.                                                           *)
C1_SafeOpening ==
    first # <<>> => Around(first) \cap BombCells = {}

\* A first reveal has been handled, bombs exist, and a cell next to the
\* opening neighbourhood holds one.
C1_Witness ==
    /\ first # <<>>
    /\ last.op = "reveal" /\ last.from = "Initial"
    /\ BombCells # {}
    /\ \E q \in Around(first) : Around(q) \cap BombCells # {}

(* C2: outside Initial exactly `bombs` cells hold a bomb; in Initial no    *)
(* cell holds one.                                                         *)
C2_BombCount ==
    IF state = "Initial"
    THEN BombCells = {}
    ELSE Cardinality(BombCells) = bombs

C2_Witness ==
    /\ last.op = "reveal" /\ last.from = "Initial"
    /\ state = "Alive"
    /\ bombs = 2
    /\ Cardinality(BombCells) = 2

(* C3: after initialization every cell that is not a bomb stores           *)
(* Nothing(n) with n the number of bomb cells among its in-bounds          *)
(* neighbours.                                                             *)
C3_NeighbourCounts ==
    state # "Initial" =>
        \A p \in DOMAIN cells \ BombCells :
            cells[p].content = Nothing(Cardinality((Around(p) \ {p}) \cap BombCells))

\* An initialized board with a cell that counts two bombs and one that
\* counts none.
C3_Witness ==
    /\ state # "Initial"
    /\ \E p \in DOMAIN cells : cells[p].content = Nothing(2)
    /\ \E p \in DOMAIN cells \ Around(first) : cells[p].content = Nothing(0)

\* Every cell that is not a bomb is Revealed and every bomb is Flagged.
Solved ==
    /\ RevealedCells = DOMAIN cells \ BombCells
    /\ FlaggedCells = BombCells
    /\ Cardinality(FlaggedCells) = bombs

(* C4: whenever an intent (the first reveal, a later reveal or a           *)
(* cycle-annotate) returns with every non-bomb cell Revealed and every     *)
(* bomb cell Flagged, the state is Won, on every accepted board, also one  *)
(* without bombs.                                                          *)
C4_WinDetected ==
    (last.op # "none" /\ Solved) => state = "Won"

(* C5: the state is Won only if every bomb cell is Flagged, every other    *)
(* cell is Revealed and the number of Flagged cells is `bombs`.            *)
C5_WonOnlyIfSolved ==
    state = "Won" => Solved

\* A game with two bombs was won.
C5_Witness ==
    /\ state = "Won"
    /\ last.from = "Alive" /\ last.changed
    /\ bombs = 2

(* C6: in state Alive, a reveal of a bomb cell that is not Revealed yet,   *)
(* whatever its annotation, sets the state to Lost in that same intent     *)
(* (and so never to Won).                                                  *)
C6_RevealBombLoses ==
    state = "Alive" =>
        \A p \in BombCells :
            cells[p].player # "Revealed" =>
                set(G, p[1], p[2], "Revealed", {}).state = "Lost"

\* A reveal in state Alive lost the game while a flag stood on the board.
C6_Witness ==
    /\ last.op = "reveal" /\ last.from = "Alive"
    /\ state = "Lost"
    /\ \E p \in BombCells : cells[p].player = "Revealed"
    /\ FlaggedCells # {}

(* C7: Won and Lost are terminal: a reveal or a cycle-annotate on any cell *)
(* leaves the state, every cell and flagged unchanged.                     *)
C7_TerminalNoOps ==
    /\ state \in {"Won", "Lost"} =>
          \A p \in DOMAIN cells :
              /\ set(G, p[1], p[2], "Revealed", {}) = G
              /\ annotate_cycle(G, p[1], p[2]) = G
    /\ last.from \in {"Won", "Lost"} => ~last.changed /\ state = last.from

\* An intent was handled on a cell not Revealed after the game was won.
C7_Witness ==
    /\ last.from = "Won"
    /\ last.op = "annotate"
    /\ ~last.revealed

(* C8: in every state, Lost and Won included, flagged is the number of     *)
(* cells whose annotation is Flagged.                                      *)
C8_FlaggedCountExact ==
    flagged = Cardinality(FlaggedCells)

(* C9: in state Alive with flagged = bombs, a cycle-annotate on a          *)
(* NotDetermined cell leaves that cell NotDetermined and flagged, the      *)
(* state and every other cell unchanged.                                   *)
C9_FlagCap ==
    (state = "Alive" /\ flagged = bombs) =>
        \A p \in DOMAIN cells :
            cells[p].player = "NotDetermined" =>
                annotate_cycle(G, p[1], p[2]) = G

\* A cycle-annotate on a cell that was not Revealed changed nothing in state
\* Alive: a flag was refused at the cap, with both flags of the board placed.
C9_Witness ==
    /\ last.op = "annotate" /\ last.from = "Alive"
    /\ ~last.revealed /\ ~last.changed
    /\ state = "Alive"
    /\ bombs = 2 /\ flagged = bombs
    /\ \E p \in DOMAIN cells : cells[p].player = "NotDetermined"

(* C10: flagged and the number of Flagged cells are both at most bombs, so *)
(* the subtraction bombs - flagged of the bomb counter never underflows.   *)
C10_NoUnderflow ==
    /\ flagged <= bombs
    /\ Cardinality(FlaggedCells) <= bombs
    /\ ~draw_counter(G).underflow

\* The counter shows zero bombs left while a flag stands on a cell that is
\* not a bomb.
C10_Witness ==
    /\ state = "Alive"
    /\ draw_counter(G).text = "Left"
    /\ bombs = 2 /\ flagged = bombs
    /\ FlaggedCells \ BombCells # {}

(* C11: Revealed is absorbing: no intent, on that cell or on another one,  *)
(* cascades included, changes the annotation of a cell that is Revealed;   *)
(* Gameboard::set leaves it Revealed for every annotation value.           *)
C11_RevealedAbsorbing ==
    /\ [](\A p \in RevealedCells : \A val \in PlayerCell :
            /\ set(G, p[1], p[2], val, {}).cells[p].player = "Revealed"
            /\ annotate_cycle(G, p[1], p[2]) = G)
    /\ [][\A p \in DOMAIN cells :
            cells[p].player = "Revealed" => cells'[p].player = "Revealed"]_vars

\* In state Alive a cycle-annotate was handled on a Revealed cell, and a
\* reveal elsewhere cascaded afterwards.
C11_Witness ==
    /\ last.op = "annotate" /\ last.from = "Alive" /\ last.revealed
    /\ Cardinality(RevealedCells) > 1
    /\ state = "Alive"

(* C12: on every accepted board and for every first-reveal cell the first  *)
(* reveal runs to completion: while the placement loop still has bombs to  *)
(* place, some draw places one (so a fair random source ends the loop),    *)
(* and it ends with `bombs` bombs placed and the state Alive.              *)
C12_FirstRevealTerminates ==
    /\ (state = "Initial" /\ first # <<>> /\ placed_of(G) < bombs) =>
          \E p \in DOMAIN cells :
              place_draw(G, first[1], first[2], p[1], p[2]) # G
    /\ (state # "Initial") => (state = "Alive" /\ placed_of(G) = bombs)

\* The outcomes of the loop taken step by step are those of Placements: the
\* board a completed first reveal leaves is one that the Initial branch of set
\* yields for an outcome in Placements.
PlaceAgreesWithSet ==
    (state = "Alive") =>
        /\ BombCells \in Placements(new(size[1], size[2], bombs), first[1], first[2])
        /\ G = set(new(size[1], size[2], bombs), first[1], first[2],
                   "Revealed", BombCells)

(* C13: in state Initial every intent but a reveal is a no-op: the state   *)
(* stays Initial, every annotation NotDetermined, every content            *)
(* Nothing(0) and flagged 0.                                               *)
C13_InitialIgnoresAnnotations ==
    /\ state = "Initial" =>
          /\ flagged = 0
          /\ \A p \in DOMAIN cells :
                /\ cells[p] = DefaultCell
                /\ annotate_cycle(G, p[1], p[2]) = G
                /\ \A val \in PlayerCell \ {"Revealed"} :
                      set(G, p[1], p[2], val, {}) = G
    /\ (last.op = "annotate" /\ last.from = "Initial") =>
          (~last.changed /\ state = "Initial")

\* The right button was pressed on a cell of a board in state Initial.
C13_Witness ==
    /\ last.op = "annotate" /\ last.from = "Initial"
    /\ state = "Initial"
    /\ Cardinality(DOMAIN cells) > 1

(* C14: the state changes only from Initial to Alive (on a reveal), from   *)
(* Alive to Won and from Alive to Lost: never from Initial to Won or Lost, *)
(* never back, never out of Won or Lost.                                   *)
C14_StateTransitions ==
    [][/\ state' # state =>
             <<state, state'>> \in {<<"Initial", "Alive">>, <<"Alive", "Won">>,
                                    <<"Alive", "Lost">>}
       /\ (state = "Initial" /\ state' # "Initial") => last'.op = "reveal"]_vars

\* A game went from Initial through Alive to Won.
C14_Witness ==
    /\ state = "Won"
    /\ last.from = "Alive"
    /\ first # <<>>

(* C15: right after the first reveal the state is Alive and flagged is 0,  *)
(* on every board and for every cell, also when the opening cascade has    *)
(* revealed every cell that is not a bomb: on the 3x3 board with its one   *)
(* bomb at (2,2) and the first reveal at (0,0) the 8 other cells are       *)
(* Revealed, and a cycle-annotate of (2,2) then flags it, makes flagged 1  *)
(* (= bombs) and the state Won.                                            *)
C15_Scenario ==
    /\ size = <<3, 3>> /\ bombs = 1
    /\ first = <<0, 0>>
    /\ BombCells = {<<2, 2>>}
    /\ last.op = "reveal" /\ last.from = "Initial"

OthersKept(g, p) ==
    \A q \in DOMAIN cells \ {p} : g.cells[q].player = cells[q].player

(* C16: in state Alive a cycle-annotate turns NotDetermined into Flagged   *)
(* (while flagged < bombs), Flagged into Question and Question into        *)
(* NotDetermined (these two also at flagged = bombs), changes no other     *)
(* cell's annotation and is a no-op on a Revealed cell; with               *)
(* flagged < bombs, three cycles in a row on one cell bring back its       *)
(* annotation unless one of them wins the game.                            *)
C16_AnnotationCycle ==
    state = "Alive" =>
        \A p \in DOMAIN cells :
            LET g1 == annotate_cycle(G, p[1], p[2])
                g2 == annotate_cycle(g1, p[1], p[2])
                g3 == annotate_cycle(g2, p[1], p[2])
                was == cells[p].player
            IN  /\ (was = "NotDetermined" /\ flagged < bombs) =>
                       g1.cells[p].player = "Flagged"
                /\ was = "Flagged" => g1.cells[p].player = "Question"
                /\ was = "Question" => g1.cells[p].player = "NotDetermined"
                /\ was = "Revealed" => g1 = G
                /\ OthersKept(g1, p)
                /\ (was # "Revealed" /\ flagged < bombs
                      /\ g1.state # "Won" /\ g2.state # "Won" /\ g3.state # "Won") =>
                       /\ g3.cells[p].player = was
                       /\ g3.cells = cells

\* In state Alive a cycle-annotate changed the board, which holds a
\* Question cell, a Flagged cell and room for another flag.
C16_Witness ==
    /\ last.op = "annotate" /\ last.from = "Alive" /\ last.changed
    /\ state = "Alive"
    /\ flagged < bombs
    /\ \E p \in DOMAIN cells : cells[p].player = "Question"
    /\ FlaggedCells # {}

(* C17: flags are advisory: in state Alive a reveal of a Flagged or        *)
(* Question cell is not blocked, the cell becomes Revealed; if it is not a *)
(* bomb, flagged drops by the number of Flagged cells that became Revealed *)
(* and the win is evaluated anew.                                          *)
C17_FlagsAdvisory ==
    state = "Alive" =>
        \A p \in DOMAIN cells :
            cells[p].player \in {"Flagged", "Question"} =>
                LET g == set(G, p[1], p[2], "Revealed", {})
                    gone == {q \in FlaggedCells : g.cells[q].player = "Revealed"}
                IN  /\ g.cells[p].player = "Revealed"
                    /\ cells[p].content.kind = "Nothing" =>
                          /\ g.flagged = flagged - Cardinality(gone)
                          /\ g.flagged = ScanFlagged(g)
                          /\ g.state \in {"Alive", "Won"}
                          /\ g.state = "Won" <=>
                                /\ \A q \in DOMAIN cells :
                                      g.cells[q].player \in {"Revealed", "Flagged"}
                                /\ ScanFlagged(g) = bombs

\* In state Alive a flag stands on a cell that is not a bomb, and the reveal
\* of that cell takes the flag away.
C17_Witness ==
    /\ state = "Alive"
    /\ last.op = "annotate" /\ last.changed
    /\ \E p \in FlaggedCells \ BombCells :
          LET g == set(G, p[1], p[2], "Revealed", {}) IN
          /\ g.cells[p].player = "Revealed"
          /\ g.flagged = flagged - 1

(* C18: construction fails exactly when bombs >= width * height; otherwise *)
(* it yields a board in state Initial with flagged 0, every annotation     *)
(* NotDetermined, every content Nothing(0), and the size and bombs given.  *)
C18_Construction ==
    last.op = "none" =>
        /\ ~new_panics(size[1], size[2], bombs)
        /\ state = "Initial" /\ flagged = 0
        /\ \A cols \in 0 .. MaxCols, rows \in 0 .. MaxRows,
              nbombs \in 0 .. MaxCells + 1 :
              /\ new_panics(cols, rows, nbombs) <=> nbombs >= cols * rows
              /\ ~new_panics(cols, rows, nbombs) =>
                    LET g == new(cols, rows, nbombs) IN
                    /\ g.state = "Initial" /\ g.flagged = 0
                    /\ g.size = <<cols, rows>> /\ g.bombs = nbombs
                    /\ DOMAIN g.cells = (0 .. cols - 1) \X (0 .. rows - 1)
                    /\ \A p \in DOMAIN g.cells :
                          /\ g.cells[p].player = "NotDetermined"
                          /\ g.cells[p].content = Nothing(0)
                    /\ (cols \in 1 .. MaxCols /\ rows \in 1 .. MaxRows
                          /\ cols * rows <= MaxCells /\ nbombs <= MaxBombs
                          /\ size = <<cols, rows>> /\ bombs = nbombs) => G = g

\* A board of 3x3 cells with 2 bombs was constructed.
C18_Witness ==
    /\ last.op = "none"
    /\ size = <<3, 3>> /\ bombs = 2
    /\ state = "Initial"

(* C19: out-of-range coordinates fail fast in every state: Gameboard::set  *)
(* with a column >= width or a row >= height panics for every annotation   *)
(* value, in Initial, Alive, Won and Lost, at the flag cap or not.         *)
C19_OutOfRangeFailsFast ==
    \A val \in PlayerCell :
        \A col \in 0 .. MaxCols, row \in 0 .. MaxRows :
            (col >= size[1] \/ row >= size[2]) => set_panics(G, col, row, val)

\* Where set does fail fast: on a reveal in state Initial, and in state Alive
\* unless a flag is asked for at the cap.
C19_FailsWhereCellIsRead ==
    \A val \in PlayerCell :
        \A col \in 0 .. MaxCols, row \in 0 .. MaxRows :
            (col >= size[1] \/ row >= size[2]) =>
                (set_panics(G, col, row, val) <=>
                    \/ state = "Initial" /\ val = "Revealed"
                    \/ state = "Alive" /\ ~(val = "Flagged" /\ flagged = bombs))

\* The rendering the claim C20 gives to a cell outside the two Lost-only
\* cases: what char_and_colors returns for it on the same board not Lost.
NormalRendering(p) == char_and_colors([G EXCEPT !.state = "Alive"], p[1], p[2])

\* What C20 requires of the cell p in state Lost.
LostRenderingAsClaimed(p) ==
    LET r == char_and_colors(G, p[1], p[2]) IN
    IF cells[p].content = Bomb /\ cells[p].player # "Flagged"
    THEN r[1] = <<"B", "BLACK">> /\ r[2] \in Color
    ELSE IF cells[p].content # Bomb /\ cells[p].player = "Flagged"
    THEN r = <<(<<"X", "BLACK">>), "WRONG_BACKGROUND">>
    ELSE /\ r = NormalRendering(p)
         /\ cells[p].player = "NotDetermined" => r = <<None, "ND_BACKGROUND">>
         /\ cells[p].player = "Flagged" =>
                r = <<(<<"F", "BLACK">>), "FLAGGED_BACKGROUND">>
         /\ cells[p].player = "Question" =>
                r = <<(<<"?", "BLACK">>), "QUESTION_BACKGROUND">>
         /\ cells[p].player = "Revealed" =>
                /\ r[2] = "REV_BACKGROUND"
                /\ r[1] = IF cells[p].content.n = 0 THEN None
                          ELSE <<DigitChar[cells[p].content.n],
                                 DigitColor[cells[p].content.n]>>

(* C20: in state Lost an unflagged bomb renders as a bomb marker, a        *)
(* Flagged non-bomb cell as a wrong-flag marker, and every other cell      *)
(* exactly as in the other states (NotDetermined blank, Flagged flag,      *)
(* Question question mark on its background, Revealed count or blank).     *)
C20_LostRendering ==
    state = "Lost" => \A p \in DOMAIN cells : LostRenderingAsClaimed(p)

\* The same with the Question annotation on a non-bomb cell left out: the
\* only combination on which char_and_colors departs from the claim.
C20_LostRenderingButQuestion ==
    state = "Lost" =>
        \A p \in DOMAIN cells :
            ~(cells[p].player = "Question" /\ cells[p].content # Bomb)
                => LostRenderingAsClaimed(p)

\* In state Lost a Question non-bomb cell renders blank on ND_BACKGROUND.
C20_QuestionBlankWhenLost ==
    state = "Lost" =>
        \A p \in DOMAIN cells :
            (cells[p].player = "Question" /\ cells[p].content # Bomb)
                => char_and_colors(G, p[1], p[2]) = <<None, "ND_BACKGROUND">>

\* The cells that are not Revealed.
HiddenCells == DOMAIN cells \ RevealedCells

\* The loop iterations the active calls have left, one more for each call's
\* return.
RECURSIVE PendingWork(_, _)
PendingWork(st, k) ==
    IF k > Len(st) THEN 0
    ELSE (Len(Window(G, st[k].col, st[k].row)) - st[k].i + 2)
         + PendingWork(st, k + 1)

\* A variant of the cascade: a call has at most 9 iterations and a return.
CascadeVariant == 10 * Cardinality(HiddenCells) + PendingWork(stack, 1)

\* The board the cascade in progress is bound to end with: the one
\* reveal_with_no_neighbors computes for each active call in turn.
RECURSIVE Unwind(_, _)
Unwind(g, st) ==
    IF st = <<>> THEN g
    ELSE Unwind(RevealLoop(g, Window(g, st[Len(st)].col, st[Len(st)].row),
                           st[Len(st)].i),
                SubSeq(st, 1, Len(st) - 1))

\* The stepwise cascade computes what reveal_with_no_neighbors does: no step
\* of it changes the board it is bound to end with.
CascadeAgreesWithReveal ==
    [][stack # <<>> =>
          Unwind(G, stack).cells =
              Unwind([G EXCEPT !.cells = cells'], stack').cells]_vars

(* C21: flood fill terminates on every grid and bomb placement (every step *)
(* of a cascade decreases a natural-valued variant), each cell is set to   *)
(* Revealed at most once in a cascade (a step changes at most one cell,    *)
(* from not Revealed to Revealed), and a Revealed cell is never entered    *)
(* again (a call is entered only for the cell just set to Revealed).       *)
C21_FloodFillTerminates ==
    /\ [](CascadeVariant >= 0)
    /\ [][stack # <<>> =>
            /\ CascadeVariant' < CascadeVariant
            /\ \A p \in DOMAIN cells :
                  cells'[p] # cells[p] =>
                      /\ cells[p].player # "Revealed"
                      /\ cells'[p] = [cells[p] EXCEPT !.player = "Revealed"]
            /\ Cardinality({p \in DOMAIN cells : cells'[p] # cells[p]}) <= 1
            /\ Len(stack') > Len(stack) =>
                  /\ stack'[Len(stack')].i = 1
                  /\ <<stack'[Len(stack')].col, stack'[Len(stack')].row>>
                        \in HiddenCells]_vars

\* Inside a cascade through a region of cells that count no bomb: a nested
\* call is at a cell it finds Revealed, and the cell it was entered for has
\* all its neighbours but one Revealed.
C21_Witness ==
    /\ Len(stack) >= 2
    /\ ~frame_done(G, stack)
    /\ frame_cell(G, stack) \in RevealedCells
    /\ frame_cell(G, stack) # <<stack[Len(stack)].col, stack[Len(stack)].row>>
    /\ cells[frame_cell(G, stack)].content = Nothing(0)
    /\ HiddenCells # {}

(* C22: in every state a reveal of a cell that is Revealed and not a bomb  *)
(* leaves the whole board as it is (state, annotations, contents,          *)
(* flagged), so one such reveal and two give the same board.               *)
C22_RevealIdempotent ==
    /\ \A p \in RevealedCells \ BombCells :
          \A S \in RandomOutcomes(G, p[1], p[2]) :
              LET once == set(G, p[1], p[2], "Revealed", S) IN
              /\ once = G
              /\ \A T \in RandomOutcomes(once, p[1], p[2]) :
                    set(once, p[1], p[2], "Revealed", T) = once
    /\ (last.op = "reveal" /\ last.revealed) => ~last.changed

\* A Revealed cell with hidden cells around it was clicked again in state
\* Alive.
C22_Witness ==
    /\ last.op = "reveal" /\ last.revealed /\ last.from = "Alive"
    /\ state = "Alive"
    /\ \E p \in RevealedCells \ BombCells : Around(p) \cap HiddenCells # {}

(* C23: once the board is initialised (state not Initial) no reveal and no *)
(* cycle-annotate, in any state, changes the content of a cell (a Bomb     *)
(* stays a Bomb, Nothing(n) keeps its n), the size or bombs.               *)
C23_ContentsFrozen ==
    /\ [](state # "Initial" =>
            \A p \in DOMAIN cells :
                LET kept(g) == /\ g.size = size /\ g.bombs = bombs
                               /\ DOMAIN g.cells = DOMAIN cells
                               /\ \A q \in DOMAIN cells :
                                     g.cells[q].content = cells[q].content
                IN  /\ kept(set(G, p[1], p[2], "Revealed", {}))
                    /\ kept(annotate_cycle(G, p[1], p[2])))
    /\ [][state # "Initial" =>
            /\ size' = size /\ bombs' = bombs
            /\ DOMAIN cells' = DOMAIN cells
            /\ \A p \in DOMAIN cells :
                  cells'[p].content = cells[p].content]_vars

\* A reveal in state Alive changed the board, on which there are a bomb and
\* a cell counting two.
C23_Witness ==
    /\ last.op = "reveal" /\ last.from = "Alive" /\ last.changed
    /\ BombCells # {}
    /\ \E p \in DOMAIN cells : cells[p].content = Nothing(2)
    /\ state \in {"Alive", "Won", "Lost"}

(* C24: while the state is Initial, Alive or Won no Revealed cell is a     *)
(* bomb (a cascade never reveals one); while it is Lost exactly one cell   *)
(* is Revealed and a bomb: the cell whose reveal lost the game.            *)
C24_RevealedBombs ==
    /\ [](state # "Lost" => RevealedCells \cap BombCells = {})
    /\ [](state = "Lost" => Cardinality(RevealedCells \cap BombCells) = 1)
    /\ [][(state # "Lost" /\ state' = "Lost") =>
            \E p \in BombCells :
                /\ cells' = set(G, p[1], p[2], "Revealed", {}).cells
                /\ cells[p].player # "Revealed"
                /\ \A q \in DOMAIN cells :
                      (cells'[q].player = "Revealed"
                          /\ cells'[q].content = Bomb) <=> q = p]_vars

\* The game was lost on a board with two bombs, with cells Revealed beyond
\* the neighbourhood of the first reveal.
C24_Witness ==
    /\ state = "Lost" /\ last.op = "reveal" /\ last.from = "Alive"
    /\ bombs = 2
    /\ Cardinality(RevealedCells \cap BombCells) = 1
    /\ RevealedCells \ (BombCells \cup Around(first)) # {}

(* C25: in every state after initialisation, every cell that is Revealed   *)
(* and counts no bomb has all the in-bounds cells around it Revealed.      *)
C25_CascadeClosure ==
    state # "Initial" =>
        \A p \in RevealedCells :
            cells[p].content = Nothing(0) => Around(p) \subseteq RevealedCells

\* A reveal in state Alive opened a cell counting no bomb that the first
\* reveal had not reached, and cells remain hidden.
C25_Witness ==
    /\ last.op = "reveal" /\ last.from = "Alive" /\ last.changed
    /\ state = "Alive"
    /\ HiddenCells # {}
    /\ \E p \in RevealedCells \ Around(first) :
          /\ cells[p].content = Nothing(0)
          /\ \A q \in Around(p) : cells[q].content # Nothing(0) \/ q = p

(* C26: the opening cascade always fires: after the first reveal at (c, r) *)
(* the clicked cell counts no bomb, and it and every in-bounds cell around *)
(* it are Revealed.                                                        *)
C26_OpeningCascade ==
    /\ state = "Initial" =>
          \A p \in DOMAIN cells : \A S \in Placements(G, p[1], p[2]) :
              LET g == set(G, p[1], p[2], "Revealed", S) IN
              /\ g.cells[p].content = Nothing(0)
              /\ \A q \in Around(p) : g.cells[q].player = "Revealed"
    /\ (last.op = "reveal" /\ last.from = "Initial") =>
          /\ cells[first].content = Nothing(0)
          /\ Around(first) \subseteq RevealedCells

\* The first reveal on the 3x3 board with two bombs opened the clicked cell
\* and the cells around it, and no more.
C26_Witness ==
    /\ last.op = "reveal" /\ last.from = "Initial"
    /\ size = <<3, 3>> /\ bombs = 2
    /\ RevealedCells = Around(first)
    /\ Cardinality(BombCells) = 2

\* The board after a reveal, in state Alive, of the cell p.
AfterReveal(p) == set(G, p[1], p[2], "Revealed", {})

(* C27: a cascade started in state Alive sets the Flagged and the Question *)
(* cells it reaches to Revealed (the cells around the clicked cell and     *)
(* around every cell it opens that counts no bomb), and when the intent    *)
(* returns flagged is the number of cells still Flagged.                   *)
C27_CascadeOverwrites ==
    state = "Alive" =>
        \A p \in HiddenCells :
            cells[p].content = Nothing(0) =>
                LET g == AfterReveal(p) IN
                /\ \A q \in Around(p) : g.cells[q].player = "Revealed"
                /\ \A q \in DOMAIN cells :
                      (g.cells[q].player = "Revealed"
                          /\ cells[q].content = Nothing(0)) =>
                          \A r \in Around(q) : g.cells[r].player = "Revealed"
                /\ g.flagged =
                      Cardinality({q \in DOMAIN cells :
                                     g.cells[q].player = "Flagged"})

\* In state Alive a hidden cell counting no bomb has a Flagged and a
\* Question cell around it; its reveal opens both and lowers flagged.
C27_Witness ==
    /\ state = "Alive"
    /\ \E p \in HiddenCells :
          LET g == AfterReveal(p) IN
          /\ cells[p].content = Nothing(0)
          /\ \E q, r \in Around(p) :
                /\ cells[q].player = "Flagged" /\ cells[r].player = "Question"
                /\ g.cells[q].player = "Revealed"
                /\ g.cells[r].player = "Revealed"
          /\ g.flagged < flagged

(* C28: in every state every cell that is not a bomb stores a count n with *)
(* 0 <= n <= 8, so get_neighbours, and with it char_and_colors, never      *)
(* panics with "more than 8 bombs???", for any cell and in any state.      *)
C28_CountAtMostEight ==
    \A p \in DOMAIN cells :
        /\ cells[p].content.kind = "Nothing" => cells[p].content.n \in 0 .. 8
        /\ get_neighbours(G, p[1], p[2]) # <<"panic">>
        /\ \A st \in GameState, pl \in PlayerCell :
              char_and_colors([G EXCEPT !.state = st, !.cells[p].player = pl],
                              p[1], p[2]) # <<"panic">>

\* A cell with a bomb on each of the eight cells around it.
C28_Witness ==
    /\ state = "Alive"
    /\ \E p \in DOMAIN cells :
          /\ cells[p].content = Nothing(8)
          /\ Around(p) \ {p} \subseteq BombCells
          /\ get_neighbours(G, p[1], p[2]) =
                <<(<<"8", "EIGTH_COLOR">>), "REV_BACKGROUND">>

(* C29: flood fill is iterative, with an explicit work-list: during a      *)
(* cascade reveal_with_no_neighbors never has a call of itself nested in   *)
(* it, so the depth of calls is one whatever the size of the region of     *)
(* cells counting no bomb.                                                 *)
C29_IterativeFill == Len(stack) <= 1

\* The depth the recursion does keep to: one call for each Revealed cell
\* that counts no bomb.
C29_DepthWithinRegion ==
    Len(stack) <= Cardinality({p \in RevealedCells : cells[p].content = Nothing(0)})

\* A state SpecCascade reaches: on the 3x3 board without bombs the first
\* reveal has nine calls nested, one for each cell.
C29_DeepestCascade ==
    /\ size = <<3, 3>> /\ bombs = 0
    /\ Len(stack) = Cardinality(DOMAIN cells)

====
